---------------------------- MODULE Spec2Model ----------------------------
(***************************************************************************)
(* A model of the todo tracker: the Joplin item format and the ingestion   *)
(* pipeline (src/src/todo/joplin.py) and the server lifecycle manager      *)
(* (src/src/todo/cli.py).                                                  *)
(*                                                                         *)
(* Text is a sequence of one-character strings, so that the line based    *)
(* parser and the character based clearing are both computed as the code  *)
(* computes them.                                                          *)
(***************************************************************************)
EXTENDS Integers, Sequences, FiniteSets, TLC

(***************************************************************************)
(* The state: of the item functions, of the ingestion pipeline and its     *)
(* surroundings, and of the lifecycle manager and its machine.             *)
(***************************************************************************)
VARIABLES
    itShape,     \* the shape the item text was drawn from
    itText,      \* the item text
    itPc,        \* "new", "parsed", "rebuilt", or "cleared"
    itParsed,    \* the result of _parse_joplin_item
    itRebuilt,   \* the result of _rebuild_joplin_item
    itCleared    \* what clear_note makes of the text: [ok, text]

VARIABLES
    tkShape,     \* the lines the text of tasks was drawn from: [lines, sep]
    tkText,      \* the text given to parse_tasks
    tkPc,        \* "new" or "parsed"
    tkEntries    \* the entries parse_tasks returned

taskVars == <<tkShape, tkText, tkPc, tkEntries>>

itemVars == <<itShape, itText, itPc, itParsed, itRebuilt, itCleared, taskVars>>

VARIABLES
    creds,       \* credentials.json: "absent", "nojoplin", "incomplete" or "ok"
    notePath,    \* the note_path of the configuration
    store,       \* the remote items, in listing order: [name, text]
    db,          \* the rows of the tasks table
    dbNextId,    \* the next AUTOINCREMENT id
    ldPc,        \* where load_from_joplin is
    ldItem,      \* item_name
    ldText,      \* text: the body fetch_note returned
    ldTasks,     \* tasks: the entries parse_tasks returned
    ldIdx,       \* the position of the POST loop in tasks
    ldCount,     \* count
    ldCleared,   \* the cleared text clear_note is about to PUT
    ldOutcome,   \* "none", "returned" or "raised"
    ldResult,    \* the value returned
    ldStep,      \* the step of the pipeline the run ended at
    ldCause,     \* why the run ended there
    calls,       \* the remote calls of the run, in order: [op, arg]
    posts,       \* the POSTs to /tasks of the run, in order: [task, ok]
    clearCalls,  \* the calls of clear_note in the run
    runs,        \* the runs begun
    edits,       \* the edits of the note by its owner
    cleanSince,  \* a clear_note has PUT the note and nobody edited it since
    ldClean      \* the run began with cleanSince and nobody edited the note since

loadVars == <<creds, notePath, store, db, dbNextId, ldPc, ldItem, ldText, ldTasks,
              ldIdx, ldCount, ldCleared, ldOutcome, ldResult, ldStep, ldCause,
              calls, posts, clearCalls, runs, edits, cleanSince, ldClean>>

envVars == <<creds, notePath>>
runVars == <<ldItem, ldText, ldTasks, ldIdx, ldCount, ldCleared>>
endVars == <<ldOutcome, ldResult, ldStep, ldCause>>

VARIABLES
    procs,      \* the processes of the machine, by PID
    pidFile,    \* api.pid: whether it exists, whether it holds an integer, which
    portOwner,  \* the PID of the process bound to the configured port, or NoPid
    ssWorks,    \* whether the ss command is installed
    mgr,        \* the running invocation of serve stop, restart or status
    sigLog,     \* the signals the invocation has sent: [pid, sig, st]
    cmds,       \* the invocations begun
    envs        \* the events of the environment so far

serveVars == <<procs, pidFile, portOwner, ssWorks, mgr, sigLog, cmds, envs>>

vars == <<itemVars, loadVars, serveVars>>

(***************************************************************************)
(* Characters and the string operations of the Python source.              *)
(***************************************************************************)
NL == "\n"
CR == "\r"

\* the width of the hexadecimal id of the metadata boundary, [a-f0-9]{32}
HexLen == 32

\* str.strip() and the regular expression class \s
Whitespace == {" ", "\t", NL, CR, "\f"}

\* the regular expression class [a-f0-9]
HexChars == {"0", "1", "2", "3", "4", "5", "6", "7", "8", "9",
             "a", "b", "c", "d", "e", "f"}

Digits == {"0", "1", "2", "3", "4", "5", "6", "7", "8", "9"}

\* the line boundaries of str.splitlines() (those the model's alphabet has)
LineBreaks == {NL, CR, "\f"}

DigitVal(ch) ==
    CASE ch = "0" -> 0 [] ch = "1" -> 1 [] ch = "2" -> 2 [] ch = "3" -> 3
      [] ch = "4" -> 4 [] ch = "5" -> 5 [] ch = "6" -> 6 [] ch = "7" -> 7
      [] ch = "8" -> 8 [] ch = "9" -> 9

\* s[i:] of Python, with i counted from 1
Drop(s, i) == IF i > Len(s) THEN <<>> ELSE SubSeq(s, i, Len(s))

\* s[:n] of Python
Take(s, n) == IF n <= 0 THEN <<>> ELSE SubSeq(s, 1, IF n > Len(s) THEN Len(s) ELSE n)

\* s.startswith(p)
StartsWith(s, p) == Len(s) >= Len(p) /\ SubSeq(s, 1, Len(p)) = p

\* s.endswith(p)
EndsWith(s, p) == Len(s) >= Len(p) /\ SubSeq(s, Len(s) - Len(p) + 1, Len(s)) = p

\* the least and the greatest member of a non-empty set of positions
MinOf(S) == CHOOSE i \in S : \A j \in S : i <= j
MaxOf(S) == CHOOSE i \in S : \A j \in S : j <= i

\* sub occurs in s at position i
OccursAt(s, sub, i) == i >= 1 /\ i + Len(sub) - 1 <= Len(s)
                       /\ SubSeq(s, i, i + Len(sub) - 1) = sub

\* s.find(sub): the first position of sub in s, 0 when there is none
Find(s, sub) ==
    LET hits == {i \in 1..Len(s) : OccursAt(s, sub, i)}
    IN IF hits = {} THEN 0 ELSE MinOf(hits)

RECURSIVE Ascending(_)
\* the members of a set of positions in ascending order
Ascending(S) == IF S = {} THEN <<>> ELSE <<MinOf(S)>> \o Ascending(S \ {MinOf(S)})

\* s.split(c) for a one-character separator: always at least one field
SplitOn(s, c) ==
    LET pos == {i \in 1..Len(s) : s[i] = c}
        at == Ascending(pos)
        n == Len(at)
        sep(k) == IF k = 0 THEN 0 ELSE IF k = n + 1 THEN Len(s) + 1 ELSE at[k]
    IN [k \in 1..(n + 1) |-> SubSeq(s, sep(k - 1) + 1, sep(k) - 1)]

RECURSIVE Join(_, _)
\* c.join(parts)
Join(parts, c) ==
    IF parts = <<>> THEN <<>>
    ELSE IF Len(parts) = 1 THEN parts[1]
    ELSE parts[1] \o <<c>> \o Join(Tail(parts), c)

\* s.rstrip(chars)
RStripChars(s, chars) ==
    LET keep == {i \in 1..Len(s) : s[i] \notin chars}
    IN IF keep = {} THEN <<>> ELSE SubSeq(s, 1, MaxOf(keep))

\* s.lstrip(chars)
LStripChars(s, chars) ==
    LET keep == {i \in 1..Len(s) : s[i] \notin chars}
    IN IF keep = {} THEN <<>> ELSE SubSeq(s, MinOf(keep), Len(s))

\* s.strip()
Strip(s) == LStripChars(RStripChars(s, Whitespace), Whitespace)

\* s.splitlines(): "\r\n" is one boundary and a final boundary opens no line
SplitLines(s) ==
    LET pos == {i \in 1..Len(s) : s[i] \in LineBreaks
                                   /\ ~(s[i] = NL /\ i > 1 /\ s[i - 1] = CR)}
        at == Ascending(pos)
        n == Len(at)
        last(i) == IF s[i] = CR /\ i < Len(s) /\ s[i + 1] = NL THEN i + 1 ELSE i
        from(k) == IF k = 1 THEN 1 ELSE last(at[k - 1]) + 1
        to(k) == IF k = n + 1 THEN Len(s) ELSE at[k] - 1
        all == [k \in 1..(n + 1) |-> SubSeq(s, from(k), to(k))]
    IN IF all[n + 1] = <<>> THEN SubSeq(all, 1, n) ELSE all

RECURSIVE DecimalValue(_)
DecimalValue(s) ==
    IF s = <<>> THEN 0 ELSE 10 * DecimalValue(SubSeq(s, 1, Len(s) - 1)) + DigitVal(s[Len(s)])

\* int(s) of a stripped string: ok is FALSE where Python raises ValueError
ParseInt(s) ==
    LET digits == IF s # <<>> /\ s[1] \in {"-", "+"} THEN Tail(s) ELSE s
        neg == s # <<>> /\ s[1] = "-"
    IN IF digits # <<>> /\ \A i \in 1..Len(digits) : digits[i] \in Digits
       THEN [ok |-> TRUE, val |-> IF neg THEN 0 - DecimalValue(digits) ELSE DecimalValue(digits)]
       ELSE [ok |-> FALSE, val |-> 0]

(***************************************************************************)
(* The Joplin sync-item format.                                            *)
(***************************************************************************)
IdPrefix == <<"i", "d", ":", " ">>

\* [a-f0-9]{32} at position i of s
HexRunAt(s, i) == i + HexLen - 1 <= Len(s)
                  /\ \A j \in i..(i + HexLen - 1) : s[j] \in HexChars

\* re.match(r'^id: [a-f0-9]{32}\s*$', line)
IsIdLine(line) ==
    /\ StartsWith(line, IdPrefix)
    /\ HexRunAt(line, Len(IdPrefix) + 1)
    /\ \A j \in (Len(IdPrefix) + HexLen + 1)..Len(line) : line[j] \in Whitespace

\* the first index i >= 2 of an id line (Python's range(1, len(lines))), else len + 1
MetadataStart(lines) ==
    LET hits == {i \in 2..Len(lines) : IsIdLine(lines[i])}
    IN IF hits = {} THEN Len(lines) + 1 ELSE MinOf(hits)

\* line.split(':', 1): the key and the value of a metadata line holding ':'
KeyOf(line) == Strip(Take(line, Find(line, <<":">>) - 1))
ValueOf(line) == Strip(Drop(line, Find(line, <<":">>) + 1))

\* metadata.get(key, default): the last line of the block with that key wins
MetaGet(lines, start, key, default) ==
    LET hits == {i \in start..Len(lines) :
                    Find(lines[i], <<":">>) # 0 /\ KeyOf(lines[i]) = key}
    IN IF hits = {} THEN default
       ELSE ValueOf(lines[MaxOf(hits)])

RECURSIVE BodyStart(_, _, _)
BodyStart(lines, i, mstart) ==
    IF i < mstart /\ Strip(lines[i]) = <<>> THEN BodyStart(lines, i + 1, mstart) ELSE i

RECURSIVE BodyEnd(_, _, _)
BodyEnd(lines, e, bstart) ==
    IF e > bstart /\ Strip(lines[e - 1]) = <<>> THEN BodyEnd(lines, e - 1, bstart) ELSE e

\* _parse_joplin_item; ok is FALSE where int() raises ValueError
parse_joplin_item(content) ==
    LET lines == SplitOn(RStripChars(content, {NL}), NL)
        mstart == MetadataStart(lines)
        bstart == BodyStart(lines, 2, mstart)
        bend == BodyEnd(lines, mstart, bstart)
        rawType == MetaGet(lines, mstart, <<"t", "y", "p", "e", "_">>, <<"0">>)
        ty == ParseInt(IF rawType = <<>> THEN <<"0">> ELSE rawType)
    IN [ok |-> ty.ok,
        title |-> lines[1],
        body |-> IF bstart < bend THEN Join(SubSeq(lines, bstart, bend - 1), NL) ELSE <<>>,
        type |-> ty.val,
        id |-> MetaGet(lines, mstart, <<"i", "d">>, <<>>),
        parent_id |-> MetaGet(lines, mstart,
                              <<"p", "a", "r", "e", "n", "t", "_", "i", "d">>, <<>>),
        metadata_lines |-> Drop(lines, mstart)]

NoItem == [ok |-> FALSE, title |-> <<>>, body |-> <<>>, type |-> 0, id |-> <<>>,
           parent_id |-> <<>>, metadata_lines |-> <<>>]

\* _rebuild_joplin_item without the blank line that ends the body
rebuild_without_blank(title, body, metadata_lines) ==
    Join(<<title, <<>>, body>> \o metadata_lines, NL) \o <<NL>>

\* _rebuild_joplin_item
rebuild_joplin_item(title, body, metadata_lines) ==
    IF body # <<>>
    THEN Join(<<title, <<>>, body, <<>> >> \o metadata_lines, NL) \o <<NL>>
    ELSE Join(<<title, <<>>, <<>> >> \o metadata_lines, NL) \o <<NL>>

(***************************************************************************)
(* Clearing a note's text (the pure part of clear_note).                   *)
(***************************************************************************)
UpdatedPrefix == <<"u", "p", "d", "a", "t", "e", "d", "_", "t", "i", "m", "e", ":", " ">>
UserUpdatedPrefix == <<"u", "s", "e", "r", "_">> \o UpdatedPrefix

\* re.search(r'\n\nid: [a-f0-9]{32}', text).start(), 0 when there is no match
MetaMatchStart(text) ==
    LET hits == {i \in 1..Len(text) :
                    /\ OccursAt(text, <<NL, NL>> \o IdPrefix, i)
                    /\ HexRunAt(text, i + 2 + Len(IdPrefix))}
    IN IF hits = {} THEN 0 ELSE MinOf(hits)

\* re.sub(r'(?<=\n<prefix>).*', now, text): on every line but the first that starts
\* with the prefix, what follows the prefix becomes now ('.' stops at "\n" only)
SubAfterPrefix(text, prefix, now) ==
    LET lines == SplitOn(text, NL)
    IN Join([i \in 1..Len(lines) |->
                IF i >= 2 /\ StartsWith(lines[i], prefix) THEN prefix \o now
                ELSE lines[i]], NL)

\* the UTC stamp that clear_note takes in the n-th run (the clock moves on between runs)
Stamp(n) == <<"t", CHOOSE ch \in Digits : DigitVal(ch) = n>>

\* the text clear_note PUTs for the text it GETs; ok is FALSE where it raises
\* ValueError (text.index finds no "\n\n", or the metadata boundary is not found)
ClearedText(text, now) ==
    LET blank == Find(text, <<NL, NL>>)
        title_end == blank + 2
        meta == MetaMatchStart(text)
    IN IF blank = 0 \/ meta = 0 THEN [ok |-> FALSE, text |-> <<>>]
       ELSE [ok |-> TRUE,
             text |-> SubAfterPrefix(
                          SubAfterPrefix(Take(text, title_end - 1) \o Drop(text, meta),
                                         UpdatedPrefix, now),
                          UserUpdatedPrefix, now)]

(***************************************************************************)
(* The task mini-language.                                                 *)
(***************************************************************************)
\* one line of parse_tasks, but a field is not checked for being empty
TaskOfLineUnchecked(raw) ==
    LET line == Strip(raw)
        fields == SplitOn(line, ";")
        parts == [i \in 1..Len(fields) |-> Strip(fields[i])]
    IN IF line = <<>> \/ line[1] = "#" THEN <<>>
       ELSE IF Len(parts) < 2 THEN <<>>
       ELSE << [date |-> parts[1], headline |-> parts[2],
                context |-> IF Len(parts) >= 3 THEN parts[3] ELSE <<>>] >>

\* one line of parse_tasks: the entries it contributes (none or one)
TaskOfLine(raw) ==
    LET line == Strip(raw)
        fields == SplitOn(line, ";")
        parts == [i \in 1..Len(fields) |-> Strip(fields[i])]
    IN IF line = <<>> \/ line[1] = "#" THEN <<>>
       ELSE IF Len(parts) < 2 THEN <<>>
       ELSE IF parts[1] = <<>> \/ parts[2] = <<>> THEN <<>>
       ELSE << [date |-> parts[1], headline |-> parts[2],
                context |-> IF Len(parts) >= 3 THEN parts[3] ELSE <<>>] >>

RECURSIVE TasksOfLines(_)
TasksOfLines(lines) ==
    IF lines = <<>> THEN <<>> ELSE TaskOfLine(lines[1]) \o TasksOfLines(Tail(lines))

\* parse_tasks
parse_tasks(text) == TasksOfLines(SplitLines(text))

(***************************************************************************)
(* Texts of tasks: lines of the mini-language, each with the entry that    *)
(* is to come of it, joined by a line boundary.                            *)
(***************************************************************************)
MaxTaskLines == 2

\* sequences over S of length at most n
SeqsUpTo(S, n) == UNION {[1..k -> S] : k \in 0..n}

Entry(date, headline, context) ==
    [date |-> date, headline |-> headline, context |-> context]

\* raw: the line; entries: what parse_tasks makes of it; unstripped: what would
\* come of it were the '#' looked for at the start of the line as it stands
TaskLine(raw, entries, unstripped) ==
    [raw |-> raw, entries |-> entries, unstripped |-> unstripped]

Same(raw, entries) == TaskLine(raw, entries, entries)

TaskLineVocab ==
    { Same(<<"1", ";", "a">>, <<Entry(<<"1">>, <<"a">>, <<>>)>>),
      Same(<<" ", "2", " ", ";", " ", "b", " ", ";", " ", "c", " ">>,
           <<Entry(<<"2">>, <<"b">>, <<"c">>)>>),
      Same(<<"3", ";", "d", ";", "e", ";", "f">>, <<Entry(<<"3">>, <<"d">>, <<"e">>)>>),
      Same(<<"#", "4", ";", "g">>, <<>>),
      TaskLine(<<" ", "#", "5", ";", "h">>, <<>>, <<Entry(<<"#", "5">>, <<"h">>, <<>>)>>),
      Same(<<>>, <<>>),
      Same(<<" ">>, <<>>),
      Same(<<"x">>, <<>>),
      Same(<<";", "y">>, <<>>),
      Same(<<"6", ";">>, <<>>),
      Same(<<"7", ";", " ", ";", "z">>, <<>>) }

\* the boundaries str.splitlines() knows that the texts use
TaskLineSeps == { <<NL>>, <<CR, NL>>, <<"\f">> }

TaskShapes == [lines : SeqsUpTo(TaskLineVocab, MaxTaskLines), sep : TaskLineSeps]

\* the lines, each but the last followed by the boundary
TaskText(sh) ==
    LET n == Len(sh.lines)
        k == Len(sh.sep)
    IN Join([i \in 1..n |-> sh.lines[i].raw
                              \o (IF i < n THEN SubSeq(sh.sep, 1, k - 1) ELSE <<>>)],
            sh.sep[k])

TasksInit ==
    /\ tkShape \in TaskShapes
    /\ tkText = TaskText(tkShape)
    /\ tkPc = "new"
    /\ tkEntries = <<>>

TasksIdle ==
    /\ tkShape = [lines |-> <<>>, sep |-> <<NL>>]
    /\ tkText = <<>>
    /\ tkPc = "idle"
    /\ tkEntries = <<>>

\* parse_tasks(text)
TasksParse ==
    /\ tkPc = "new"
    /\ tkEntries' = parse_tasks(tkText)
    /\ tkPc' = "parsed"
    /\ UNCHANGED <<tkShape, tkText>>
    /\ UNCHANGED <<itShape, itText, itPc, itParsed, itRebuilt, itCleared>>
    /\ UNCHANGED <<loadVars, serveVars>>

(***************************************************************************)
(* Item texts of the model: a title, newlines, body lines, newlines, an    *)
(* id line and further metadata lines, and trailing newlines.              *)
(***************************************************************************)
MaxBodyLines == 2
MaxMetaLines == 2
MaxTrail == 2

Hex(ch) == [i \in 1..HexLen |-> ch]
NoteId == Hex("a")
FolderId == Hex("f")
OtherId == Hex("0")

TypeKey == <<"t", "y", "p", "e", "_", ":", " ">>
ParentKey == <<"p", "a", "r", "e", "n", "t", "_", "i", "d", ":", " ">>

Line_1a == <<"1", ";", "a">>
Line_2bc == <<"2", ";", "b", ";", "c">>
Line_blank == <<" ">>
\* an id line of the clearing pattern that the parser's pattern rejects
Line_longid == IdPrefix \o NoteId \o <<"0">>
Line_type1 == TypeKey \o <<"1">>
Line_updated == UpdatedPrefix \o <<"X">>

BodyLineVocab == {Line_1a, Line_2bc, Line_blank, Line_longid}
MetaLineVocab == {Line_type1, Line_updated}
TitleVocab == {<<"T">>, <<>>}

Newlines(n) == [i \in 1..n |-> NL]

\* the text of a shape: title, sepA newlines, the body lines, sepB newlines,
\* the id line and the metadata lines, trail newlines
RenderItem(sh) ==
    sh.title \o Newlines(sh.sepA)
    \o (IF sh.body = <<>> THEN <<>> ELSE Join(sh.body, NL) \o Newlines(sh.sepB))
    \o Join(<<IdPrefix \o NoteId>> \o sh.meta, NL) \o Newlines(sh.trail)

ItemShapes ==
    [title : TitleVocab, sepA : {1, 2}, body : SeqsUpTo(BodyLineVocab, MaxBodyLines),
     sepB : {1, 2}, meta : SeqsUpTo(MetaLineVocab, MaxMetaLines), trail : 0..MaxTrail]

NotCleared == [ok |-> FALSE, text |-> <<>>]

ItemInit ==
    /\ itShape \in ItemShapes
    /\ itText = RenderItem(itShape)
    /\ itPc = "new"
    /\ itParsed = NoItem
    /\ itRebuilt = <<>>
    /\ itCleared = NotCleared

\* the variables of the item functions when another part of the program runs
ItemIdle ==
    /\ itShape = [title |-> <<>>, sepA |-> 1, body |-> <<>>, sepB |-> 1,
                  meta |-> <<>>, trail |-> 0]
    /\ itText = <<>>
    /\ itPc = "idle"
    /\ itParsed = NoItem
    /\ itRebuilt = <<>>
    /\ itCleared = NotCleared

ItemParse ==
    /\ itPc = "new"
    /\ itParsed' = parse_joplin_item(itText)
    /\ itPc' = "parsed"
    /\ UNCHANGED <<itShape, itText, itRebuilt, itCleared, taskVars>>
    /\ UNCHANGED <<loadVars, serveVars>>

ItemRebuild ==
    /\ itPc = "parsed"
    /\ itParsed.ok
    /\ itRebuilt' = rebuild_joplin_item(itParsed.title, itParsed.body,
                                        itParsed.metadata_lines)
    /\ itPc' = "rebuilt"
    /\ UNCHANGED <<itShape, itText, itParsed, itCleared, taskVars>>
    /\ UNCHANGED <<loadVars, serveVars>>

\* clear_note, lines 192-204, on the item text: what it would PUT
ItemClear ==
    /\ itPc = "new"
    /\ itCleared' = ClearedText(itText, Stamp(1))
    /\ itPc' = "cleared"
    /\ UNCHANGED <<itShape, itText, itParsed, itRebuilt, taskVars>>
    /\ UNCHANGED <<loadVars, serveVars>>

(***************************************************************************)
(* Note resolution.                                                        *)
(***************************************************************************)
\* the characters of item names, in code point order
NameChars == <<".", "a", "d", "f", "m", "n", "t", "x">>
Ord(ch) == CHOOSE i \in 1..Len(NameChars) : NameChars[i] = ch

RECURSIVE StrLess(_, _)
\* a < b of Python strings
StrLess(a, b) ==
    IF b = <<>> THEN FALSE
    ELSE IF a = <<>> THEN TRUE
    ELSE IF a[1] = b[1] THEN StrLess(Tail(a), Tail(b))
    ELSE Ord(a[1]) < Ord(b[1])

MdSuffix == <<".", "m", "d">>

\* note_path.rsplit("/", 1)
resolve_note_item(note_path) ==
    LET pos == {i \in 1..Len(note_path) : note_path[i] = "/"}
    IN IF pos = {} THEN [notebook_name |-> <<>>, note_title |-> note_path]
       ELSE LET k == MaxOf(pos)
            IN [notebook_name |-> Take(note_path, k - 1),
                note_title |-> Drop(note_path, k + 1)]

\* the sort key (body == '', name) of _find_note_item: a sorts before b
KeyLess(a, b) ==
    \/ a.parsed.body # <<>> /\ b.parsed.body = <<>>
    \/ (a.parsed.body = <<>>) = (b.parsed.body = <<>>) /\ StrLess(a.name, b.name)

\* _find_note_item, lines 131-142: what each listed item parses to. An item in
\* failed is one whose content request raised; it is skipped, like an item that
\* does not parse and a name without the .md suffix.
parsed_items(items, failed) ==
    [i \in 1..Len(items) |->
        IF EndsWith(items[i].name, MdSuffix) /\ i \notin failed
        THEN parse_joplin_item(items[i].text) ELSE NoItem]

\* lines 144-146: the id of the last type-2 item whose title starts with the
\* notebook name, <<>> for None
folder_id_of(parsed, notebook_name) ==
    LET folders == {i \in 1..Len(parsed) :
                       /\ parsed[i].ok
                       /\ parsed[i].type = 2
                       /\ StartsWith(parsed[i].title, notebook_name)}
    IN IF folders = {} THEN <<>> ELSE parsed[MaxOf(folders)].id

\* lines 148-150 and 155-156: the type-1 items of that title, in that folder
matches_of(parsed, notebook_name, note_title, folder_id) ==
    {i \in 1..Len(parsed) :
        /\ parsed[i].ok
        /\ parsed[i].type = 1
        /\ parsed[i].title = note_title
        /\ notebook_name = <<>> \/ parsed[i].parent_id = folder_id}

\* lines 152-160: None with a notebook name and no folder id, else the first match
\* by (body == '', name)
first_match(items, parsed, notebook_name, folder_id, matches) ==
    IF notebook_name # <<>> /\ folder_id = <<>> THEN [found |-> FALSE, name |-> <<>>]
    ELSE IF matches = {} THEN [found |-> FALSE, name |-> <<>>]
    ELSE [found |-> TRUE,
          name |-> items[CHOOSE i \in matches :
                            \A j \in matches :
                                ~KeyLess([name |-> items[j].name, parsed |-> parsed[j]],
                                         [name |-> items[i].name, parsed |-> parsed[i]])].name]

select_note(items, parsed, notebook_name, note_title, folder_id) ==
    first_match(items, parsed, notebook_name, folder_id,
                matches_of(parsed, notebook_name, note_title, folder_id))

\* _find_note_item over the listed items; found is FALSE where the code returns None
find_note_in(items, parsed, notebook_name, note_title) ==
    select_note(items, parsed, notebook_name, note_title,
                folder_id_of(parsed, notebook_name))

find_note_item(items, failed, notebook_name, note_title) ==
    find_note_in(items, parsed_items(items, failed), notebook_name, note_title)

(***************************************************************************)
(* The task API (src/src/todo/api.py).                                     *)
(***************************************************************************)
\* create_task: INSERT with the next AUTOINCREMENT id
create_task(rows, id, task) ==
    Append(rows, [id |-> id, date |-> task.date, headline |-> task.headline,
                  context |-> task.context])

\* update_task: UPDATE ... WHERE id = ?
update_task(rows, id, task) ==
    [i \in 1..Len(rows) |->
        IF rows[i].id = id
        THEN [id |-> id, date |-> task.date, headline |-> task.headline,
              context |-> task.context]
        ELSE rows[i]]

\* delete_task: DELETE ... WHERE id = ?
delete_task(rows, id) ==
    LET keep == {i \in 1..Len(rows) : rows[i].id # id}
    IN  [k \in 1..Cardinality(keep) |->
            rows[CHOOSE i \in keep : Cardinality({j \in keep : j <= i}) = k]]

\* SELECT * FROM tasks WHERE id = ?
Existing(rows, id) == \E i \in 1..Len(rows) : rows[i].id = id

\* the number of POST /tasks requests
MaxPosts == 3

\* the strings of a request body, the empty string among them
ApiStrings == { <<>>, <<"a">> }

\* a JSON object with any of the fields of a task, each a string
ApiBodies == UNION { [F -> ApiStrings] : F \in SUBSET {"date", "headline", "context"} }

\* TaskIn: date and headline are required strings, context defaults to ""
TaskIn(body) ==
    IF {"date", "headline"} \subseteq DOMAIN body
    THEN [ok |-> TRUE,
          task |-> [date |-> body["date"], headline |-> body["headline"],
                    context |-> IF "context" \in DOMAIN body
                                THEN body["context"] ELSE <<>>]]
    ELSE [ok |-> FALSE, task |-> [date |-> <<>>, headline |-> <<>>, context |-> <<>>]]

\* what a request to the task API leaves alone
apiRest == <<envVars, store, ldPc, runVars, endVars, calls, posts, clearCalls, runs,
             edits, cleanSince, ldClean>>

\* POST /tasks: 422 on a body that is no TaskIn, else the row is inserted
ApiPost ==
    /\ dbNextId <= MaxPosts
    /\ \E body \in ApiBodies :
          IF TaskIn(body).ok
          THEN /\ db' = create_task(db, dbNextId, TaskIn(body).task)
               /\ dbNextId' = dbNextId + 1
          ELSE UNCHANGED <<db, dbNextId>>
    /\ UNCHANGED <<apiRest, itemVars, serveVars>>

\* PUT /tasks/{task_id}: 422, 404 when no row has the id, else the row is rewritten
ApiPut ==
    /\ \E task_id \in 1..MaxPosts, body \in ApiBodies :
          IF TaskIn(body).ok /\ Existing(db, task_id)
          THEN db' = update_task(db, task_id, TaskIn(body).task)
          ELSE UNCHANGED db
    /\ UNCHANGED <<dbNextId, apiRest, itemVars, serveVars>>

\* DELETE /tasks/{task_id}: 404 when no row has the id, else the row is removed
ApiDelete ==
    /\ \E task_id \in 1..MaxPosts :
          IF Existing(db, task_id)
          THEN db' = delete_task(db, task_id)
          ELSE UNCHANGED db
    /\ UNCHANGED <<dbNextId, apiRest, itemVars, serveVars>>

(***************************************************************************)
(* The ingestion pipeline, load_from_joplin, against a remote item store   *)
(* that its owner may edit at any time.                                    *)
(***************************************************************************)
MaxRuns == 2
MaxEdits == 1
\* the number of items the remote service lists per page
PageSize == 2

Name_n == <<"n", ".", "m", "d">>
Name_a == <<"a", ".", "m", "d">>
Name_f == <<"f", ".", "m", "d">>
Name_x == <<"x", ".", "t", "x", "t">>

NoteMeta == <<Line_type1, ParentKey \o FolderId, Line_updated>>
NoteShape(sepA, body, sepB) ==
    [title |-> <<"T">>, sepA |-> sepA, body |-> body, sepB |-> sepB,
     meta |-> NoteMeta, trail |-> 0]

Text_one == RenderItem(NoteShape(2, <<Line_1a>>, 2))
Text_two == RenderItem(NoteShape(2, <<Line_1a, Line_2bc>>, 2))
\* no blank line after the title, a blank line inside the body
Text_tight == RenderItem(NoteShape(1, <<Line_1a, <<>>, Line_2bc>>, 2))
\* no blank line at all
Text_noblank == RenderItem(NoteShape(1, <<Line_1a>>, 1))
\* a blank line after the title, none before the metadata
Text_nometa == RenderItem(NoteShape(2, <<Line_1a>>, 1))
Text_empty == RenderItem(NoteShape(2, <<>>, 2))
\* a body line that the clearing pattern takes for the metadata boundary
Text_longid == RenderItem(NoteShape(2, <<Line_1a, <<>>, Line_longid, Line_2bc>>, 2))
Text_junk == RenderItem(NoteShape(2, <<<<"x">>>>, 2))

NoteTexts == {Text_one, Text_two, Text_tight, Text_noblank, Text_nometa,
              Text_empty, Text_longid, Text_junk}

FolderText == Join(<<<<"N">>, <<>>, IdPrefix \o FolderId, TypeKey \o <<"2">>>>, NL)
\* a note of the same title and notebook whose body is empty
DecoyText == Join(<<<<"T">>, <<>>, <<>>, IdPrefix \o OtherId>> \o NoteMeta, NL)

Item(name, text) == [name |-> name, text |-> text]

Layouts(text) ==
    { <<Item(Name_f, FolderText), Item(Name_n, text)>>,
      <<Item(Name_a, DecoyText), Item(Name_x, Text_one), Item(Name_f, FolderText),
        Item(Name_n, text)>>,
      <<Item(Name_n, text)>> }

NotePaths == { <<"N", "/", "T">>, <<"T">> }


LoadLocalsInit ==
    /\ db = <<>>
    /\ dbNextId = 1
    /\ ldPc = "idle"
    /\ ldItem = <<>>
    /\ ldText = <<>>
    /\ ldTasks = <<>>
    /\ ldIdx = 1
    /\ ldCount = 0
    /\ ldCleared = <<>>
    /\ ldOutcome = "none"
    /\ ldResult = 0
    /\ ldStep = 0
    /\ ldCause = "none"
    /\ calls = <<>>
    /\ posts = <<>>
    /\ clearCalls = 0
    /\ runs = 0
    /\ edits = 0
    /\ cleanSince = FALSE
    /\ ldClean = FALSE

LoadInit ==
    /\ creds \in {"absent", "nojoplin", "incomplete", "ok"}
    /\ notePath \in NotePaths
    /\ \E t \in NoteTexts : store \in Layouts(t)
    /\ LoadLocalsInit

LoadIdle ==
    /\ creds = "absent"
    /\ notePath = <<>>
    /\ store = <<>>
    /\ LoadLocalsInit

Call(op, arg) == [op |-> op, arg |-> arg]

\* return <value> at a step of the pipeline
Return(value, step, cause) ==
    /\ ldPc' = "done"
    /\ ldOutcome' = "returned"
    /\ ldResult' = value
    /\ ldStep' = step
    /\ ldCause' = cause

\* an exception that no handler of load_from_joplin catches
Raise(step, cause) ==
    /\ ldPc' = "done"
    /\ ldOutcome' = "raised"
    /\ ldResult' = 0
    /\ ldStep' = step
    /\ ldCause' = cause

\* the text of the item of that name (the first, as the service resolves names)
TextOf(items, name) ==
    items[CHOOSE i \in 1..Len(items) :
             items[i].name = name /\ \A j \in 1..(i - 1) : items[j].name # name].text

PutText(items, name, text) ==
    [i \in 1..Len(items) |->
        IF items[i].name = name THEN [items[i] EXCEPT !.text = text] ELSE items[i]]

\* the pages of _list_all_items: one request per page, at least one
NPages(items) == IF items = <<>> THEN 1 ELSE (Len(items) + PageSize - 1) \div PageSize

\* load_from_joplin is called: steps 1 (lines 241-254)
LoadBegin ==
    /\ ldPc \in {"idle", "done"}
    /\ runs < MaxRuns
    /\ runs' = runs + 1
    /\ ldClean' = cleanSince
    /\ calls' = <<>>
    /\ posts' = <<>>
    /\ clearCalls' = 0
    /\ ldItem' = <<>>
    /\ ldText' = <<>>
    /\ ldTasks' = <<>>
    /\ ldIdx' = 1
    /\ ldCount' = 0
    /\ ldCleared' = <<>>
    /\ \/ creds \in {"absent", "nojoplin"} /\ Return(0, 1, "noconfig")
       \/ creds = "incomplete" /\ Return(0, 1, "incomplete")
       \/ /\ creds = "ok"
          /\ ldPc' = "auth"
          /\ ldOutcome' = "none"
          /\ ldResult' = 0
          /\ ldStep' = 0
          /\ ldCause' = "none"
    /\ UNCHANGED <<envVars, store, db, dbNextId, edits, cleanSince>>
    /\ UNCHANGED <<itemVars, serveVars>>

\* step 2, but a transport failure is tried again
AuthenticateRetry ==
    /\ ldPc = "auth"
    /\ calls' = Append(calls, Call("auth", <<>>))
    /\ \E r \in {"ok", "transport", "badjson", "nokey"} :
          IF r = "ok"
          THEN ldPc' = "resolve" /\ UNCHANGED endVars
          ELSE IF r = "transport" /\ Len(calls) < 2
          THEN UNCHANGED <<ldPc, endVars>>
          ELSE Return(0, 2, r)
    /\ UNCHANGED <<envVars, store, db, dbNextId, runVars, posts, clearCalls, runs,
                   edits, cleanSince, ldClean>>
    /\ UNCHANGED <<itemVars, serveVars>>

\* step 2 (lines 257-261): fetch_session_token, every failure it names is caught
Authenticate ==
    /\ ldPc = "auth"
    /\ calls' = Append(calls, Call("auth", <<>>))
    /\ \E r \in {"ok", "transport", "badjson", "nokey"} :
          IF r = "ok"
          THEN ldPc' = "resolve" /\ UNCHANGED endVars
          ELSE Return(0, 2, r)
    /\ UNCHANGED <<envVars, store, db, dbNextId, runVars, posts, clearCalls, runs,
                   edits, cleanSince, ldClean>>
    /\ UNCHANGED <<itemVars, serveVars>>

\* step 3 (lines 264-272): _resolve_note_item. Either the listing fails at page
\* failPage, by a transport failure, which is caught, or by a response that is not
\* JSON, a ValueError that is not; or it succeeds, the content requests of the
\* items in failed raise, and _find_note_item skips those items.
Resolve ==
    /\ ldPc = "resolve"
    /\ LET path == resolve_note_item(notePath)
           listed(n) == [k \in 1..n |-> Call("list", <<k>>)]
           md == SelectSeq(store, LAMBDA it : EndsWith(it.name, MdSuffix))
           gets == [k \in 1..Len(md) |-> Call("get", md[k].name)]
       IN \/ \E failPage \in 1..NPages(store) :
                /\ calls' = calls \o listed(failPage)
                /\ \/ Return(0, 3, "transport")
                   \/ Raise(3, "malformed")
                /\ UNCHANGED ldItem
          \/ \E failed \in {{}} \cup {{i} : i \in 1..Len(store)} :
                LET hit == find_note_item(store, failed, path.notebook_name,
                                          path.note_title)
                IN /\ calls' = calls \o listed(NPages(store)) \o gets
                   /\ IF hit.found
                      THEN ldItem' = hit.name /\ ldPc' = "fetch" /\ UNCHANGED endVars
                      ELSE Return(0, 3, "notfound") /\ UNCHANGED ldItem
    /\ UNCHANGED <<envVars, store, db, dbNextId, ldText, ldTasks, ldIdx, ldCount,
                   ldCleared, posts, clearCalls, runs, edits, cleanSince, ldClean>>
    /\ UNCHANGED <<itemVars, serveVars>>

\* step 4 (lines 275-285): fetch_note and parse_tasks
Fetch ==
    /\ ldPc = "fetch"
    /\ calls' = Append(calls, Call("fetch", ldItem))
    /\ \/ Return(0, 4, "transport") /\ UNCHANGED <<ldText, ldTasks>>
       \/ Raise(4, "malformed") /\ UNCHANGED <<ldText, ldTasks>>
       \/ LET parsed == parse_joplin_item(TextOf(store, ldItem))
              tasks == parse_tasks(parsed.body)
          IN IF ~parsed.ok
             THEN Raise(4, "format") /\ UNCHANGED <<ldText, ldTasks>>
             ELSE /\ ldText' = parsed.body
                  /\ ldTasks' = tasks
                  /\ IF tasks = <<>> THEN Return(0, 4, "notasks")
                     ELSE ldPc' = "post" /\ UNCHANGED endVars
    /\ UNCHANGED <<envVars, store, db, dbNextId, ldItem, ldIdx, ldCount, ldCleared,
                   posts, clearCalls, runs, edits, cleanSince, ldClean>>
    /\ UNCHANGED <<itemVars, serveVars>>

\* step 5, but the first POST that fails ends the loop
PostTaskStopOnFailure ==
    /\ ldPc = "post"
    /\ \E ok \in BOOLEAN :
          /\ posts' = Append(posts, [task |-> ldTasks[ldIdx], ok |-> ok])
          /\ IF ok
             THEN /\ db' = create_task(db, dbNextId, ldTasks[ldIdx])
                  /\ dbNextId' = dbNextId + 1
                  /\ ldCount' = ldCount + 1
             ELSE UNCHANGED <<db, dbNextId, ldCount>>
          /\ ldPc' = IF ldIdx = Len(ldTasks) \/ ~ok THEN "clear" ELSE "post"
    /\ calls' = Append(calls, Call("post", <<ldIdx>>))
    /\ ldIdx' = ldIdx + 1
    /\ UNCHANGED <<envVars, store, ldItem, ldText, ldTasks, ldCleared, endVars,
                   clearCalls, runs, edits, cleanSince, ldClean>>
    /\ UNCHANGED <<itemVars, serveVars>>

\* step 5 (lines 288-302): one turn of the POST loop
PostTask ==
    /\ ldPc = "post"
    /\ \E ok \in BOOLEAN :
          /\ posts' = Append(posts, [task |-> ldTasks[ldIdx], ok |-> ok])
          /\ IF ok
             THEN /\ db' = create_task(db, dbNextId, ldTasks[ldIdx])
                  /\ dbNextId' = dbNextId + 1
                  /\ ldCount' = ldCount + 1
             ELSE UNCHANGED <<db, dbNextId, ldCount>>
    /\ calls' = Append(calls, Call("post", <<ldIdx>>))
    /\ ldIdx' = ldIdx + 1
    /\ ldPc' = IF ldIdx = Len(ldTasks) THEN "clear" ELSE "post"
    /\ UNCHANGED <<envVars, store, ldItem, ldText, ldTasks, ldCleared, endVars,
                   clearCalls, runs, edits, cleanSince, ldClean>>
    /\ UNCHANGED <<itemVars, serveVars>>

\* step 6 (lines 305-308, 190-199): clear_note is called and GETs the item
ClearGet ==
    /\ ldPc = "clear"
    /\ clearCalls' = clearCalls + 1
    /\ calls' = Append(calls, Call("clearget", ldItem))
    /\ \/ Return(ldCount, 7, "clearfailed") /\ UNCHANGED ldCleared
       \/ Raise(6, "malformed") /\ UNCHANGED ldCleared
       \/ LET c == ClearedText(TextOf(store, ldItem), Stamp(runs))
          IN IF c.ok
             THEN ldCleared' = c.text /\ ldPc' = "clearput" /\ UNCHANGED endVars
             ELSE Raise(6, "format") /\ UNCHANGED ldCleared
    /\ UNCHANGED <<envVars, store, db, dbNextId, ldItem, ldText, ldTasks, ldIdx,
                   ldCount, posts, runs, edits, cleanSince, ldClean>>
    /\ UNCHANGED <<itemVars, serveVars>>

\* step 6 (lines 206-209) and 7 (lines 310-311): clear_note PUTs the cleared text
ClearPut ==
    /\ ldPc = "clearput"
    /\ calls' = Append(calls, Call("clearput", ldItem))
    /\ \E ok \in BOOLEAN :
          IF ok
          THEN /\ store' = PutText(store, ldItem, ldCleared)
               /\ cleanSince' = TRUE
               /\ Return(ldCount, 7, "cleared")
          ELSE /\ UNCHANGED <<store, cleanSince>>
               /\ Return(ldCount, 7, "clearfailed")
    /\ UNCHANGED <<envVars, db, dbNextId, runVars, posts, clearCalls, runs, edits,
                   ldClean>>
    /\ UNCHANGED <<itemVars, serveVars>>

\* the owner of the note rewrites it in the note-taking service
EditNote ==
    /\ edits < MaxEdits
    /\ \E i \in 1..Len(store), t \in NoteTexts :
          /\ store[i].name = Name_n
          /\ store[i].text # t
          /\ store' = [store EXCEPT ![i].text = t]
    /\ edits' = edits + 1
    /\ cleanSince' = FALSE
    /\ ldClean' = FALSE
    /\ UNCHANGED <<envVars, db, dbNextId, ldPc, runVars, endVars, calls, posts,
                   clearCalls, runs>>
    /\ UNCHANGED <<itemVars, serveVars>>

(***************************************************************************)
(* The server lifecycle manager, _handle_serve, over the processes of the  *)
(* machine, the PID file and the configured TCP port.                      *)
(***************************************************************************)
MaxPid == 2
MaxCmds == 2
MaxEnv == 1
\* the polls of _stop_server between SIGTERM and SIGKILL: range(10)
PollBudget == 10

Pids == 1..MaxPid

\* no process: the PID of nobody, and _read_pid's and _pid_from_port's None
NoPid == 0

NoProc == [st |-> "none", owner |-> "me", tracked |-> FALSE, dying |-> FALSE,
           saw |-> NoPid]
NoFile == [exists |-> FALSE, valid |-> FALSE, pid |-> NoPid]
IdleMgr == [cmd |-> "none", pc |-> "done", pid |-> NoPid, tries |-> 0,
            why |-> "none", saw |-> NoPid, unlinked |-> FALSE, dead |-> FALSE,
            report |-> "none"]

ServeInit ==
    /\ procs = [p \in Pids |-> NoProc]
    /\ pidFile \in {NoFile, [exists |-> TRUE, valid |-> FALSE, pid |-> NoPid],
                    [exists |-> TRUE, valid |-> TRUE, pid |-> 1]}
    /\ portOwner = NoPid
    /\ ssWorks \in BOOLEAN
    /\ mgr = IdleMgr
    /\ sigLog = <<>>
    /\ cmds = 0
    /\ envs = 0

ServeIdle ==
    /\ procs = [p \in Pids |-> NoProc]
    /\ pidFile = NoFile
    /\ portOwner = NoPid
    /\ ssWorks = FALSE
    /\ mgr = IdleMgr
    /\ sigLog = <<>>
    /\ cmds = 0
    /\ envs = 0

Exists(p) == p \in Pids /\ procs[p].st # "none"

\* os.kill(pid, 0): "ok", or the exception it raises
Probe(p) ==
    IF ~Exists(p) THEN "ProcessLookupError"
    ELSE IF procs[p].owner # "me" THEN "PermissionError"
    ELSE "ok"

\* _read_pid, but the unlink is not under the except clause: it is always reached
read_pid_always_unlinks ==
    IF ~pidFile.exists THEN [pid |-> NoPid, stale |-> FALSE, why |-> "none"]
    ELSE IF ~pidFile.valid THEN [pid |-> NoPid, stale |-> TRUE, why |-> "ValueError"]
    ELSE IF Probe(pidFile.pid) = "ok" THEN [pid |-> NoPid, stale |-> TRUE, why |-> "none"]
    ELSE [pid |-> NoPid, stale |-> TRUE, why |-> Probe(pidFile.pid)]

\* _read_pid up to its unlink: the PID it returns (NoPid for None), whether it
\* goes on to unlink the file, and what made it: "ValueError" of int(), or the
\* exception of os.kill
read_pid ==
    IF ~pidFile.exists THEN [pid |-> NoPid, stale |-> FALSE, why |-> "none"]
    ELSE IF ~pidFile.valid THEN [pid |-> NoPid, stale |-> TRUE, why |-> "ValueError"]
    ELSE IF Probe(pidFile.pid) = "ok"
    THEN [pid |-> pidFile.pid, stale |-> FALSE, why |-> "none"]
    ELSE [pid |-> NoPid, stale |-> TRUE, why |-> Probe(pidFile.pid)]

\* _pid_from_port: ss names the PID of a listener only to its owner; None when ss
\* is not installed or nothing it can name listens
pid_from_port ==
    IF ssWorks /\ portOwner # NoPid /\ procs[portOwner].owner = "me" THEN portOwner
    ELSE NoPid

\* the status check of line 188: _read_pid() or _pid_from_port(port)
StatusOf(r) == IF r.pid # NoPid THEN r.pid ELSE pid_from_port

\* what a signal does to the process it reaches: SIGKILL and an unhandled SIGTERM
\* end it, without its cleanup, some time after os.kill returns; the server has
\* a SIGTERM handler once uvicorn runs, and then shuts down
Signalled(pr, sig, handled) ==
    IF pr.dying THEN pr
    ELSE IF sig = "SIGTERM" /\ handled /\ pr.st \in {"run", "serving"}
    THEN [pr EXCEPT !.st = "exiting"]
    ELSE [pr EXCEPT !.dying = TRUE]

FreePid(p) == p \in Pids /\ procs[p].st = "none"
Running(p) == Exists(p) /\ ~procs[p].dying

\* unlink(missing_ok=True)
Unlink == pidFile' = NoFile

\* the user runs `todo serve start`: a new process enters _handle_serve
StartCli(p) ==
    /\ cmds < MaxCmds
    /\ FreePid(p)
    /\ cmds' = cmds + 1
    /\ procs' = [procs EXCEPT ![p] = [NoProc EXCEPT !.st = "check", !.tracked = TRUE]]
    /\ UNCHANGED <<pidFile, portOwner, ssWorks, mgr, sigLog, envs>>
    /\ UNCHANGED <<itemVars, loadVars>>

\* line 166: the start action's _read_pid() up to its unlink; the process prints
\* "already running" and ends, or goes on to serve
SrvCheck(p) ==
    /\ Running(p) /\ procs[p].st = "check"
    /\ LET r == read_pid
       IN procs' = [procs EXCEPT ![p] =
                       IF r.pid # NoPid THEN NoProc
                       ELSE [@ EXCEPT !.st = IF r.stale THEN "checkunlink" ELSE "write",
                                      !.saw = StatusOf(r)]]
    /\ UNCHANGED <<pidFile, portOwner, ssWorks, mgr, sigLog, cmds, envs>>
    /\ UNCHANGED <<itemVars, loadVars>>

\* line 115, reached from line 166
SrvCheckUnlink(p) ==
    /\ Running(p) /\ procs[p].st = "checkunlink"
    /\ Unlink
    /\ procs' = [procs EXCEPT ![p].st = "write"]
    /\ UNCHANGED <<portOwner, ssWorks, mgr, sigLog, cmds, envs>>
    /\ UNCHANGED <<itemVars, loadVars>>

\* line 173
SrvWrite(p) ==
    /\ Running(p) /\ procs[p].st = "write"
    /\ pidFile' = [exists |-> TRUE, valid |-> TRUE, pid |-> p]
    /\ procs' = [procs EXCEPT ![p].st = "run", ![p].saw = NoPid]
    /\ UNCHANGED <<portOwner, ssWorks, mgr, sigLog, cmds, envs>>
    /\ UNCHANGED <<itemVars, loadVars>>

\* line 175: uvicorn binds the port and serves, or fails to and raises
SrvBind(p) ==
    /\ Running(p) /\ procs[p].st = "run"
    /\ IF portOwner = NoPid
       THEN portOwner' = p /\ procs' = [procs EXCEPT ![p].st = "serving"]
       ELSE UNCHANGED portOwner /\ procs' = [procs EXCEPT ![p].st = "exiting"]
    /\ UNCHANGED <<pidFile, ssWorks, mgr, sigLog, cmds, envs>>
    /\ UNCHANGED <<itemVars, loadVars>>

\* lines 176-177: uvicorn.run has returned or raised; the finally clause of the
\* start action unlinks the PID file and the process ends. A server started
\* outside this manager ends without it.
SrvExit(p) ==
    /\ Running(p) /\ procs[p].st = "exiting"
    /\ IF procs[p].tracked THEN Unlink ELSE UNCHANGED pidFile
    /\ portOwner' = IF portOwner = p THEN NoPid ELSE portOwner
    /\ procs' = [procs EXCEPT ![p] = NoProc]
    /\ UNCHANGED <<ssWorks, mgr, sigLog, cmds, envs>>
    /\ UNCHANGED <<itemVars, loadVars>>

\* a process that a signal has ended is gone
Reap(p) ==
    /\ Exists(p) /\ procs[p].dying
    /\ portOwner' = IF portOwner = p THEN NoPid ELSE portOwner
    /\ procs' = [procs EXCEPT ![p] = NoProc]
    /\ UNCHANGED <<pidFile, ssWorks, mgr, sigLog, cmds, envs>>
    /\ UNCHANGED <<itemVars, loadVars>>

\* the environment: an unrelated process starts, perhaps another user's, perhaps
\* listening on the configured port
SpawnForeign(p) ==
    /\ envs < MaxEnv
    /\ FreePid(p)
    /\ envs' = envs + 1
    /\ \E o \in {"me", "other"}, bind \in BOOLEAN :
          /\ bind => portOwner = NoPid
          /\ procs' = [procs EXCEPT ![p] = [NoProc EXCEPT !.st = "foreign", !.owner = o]]
          /\ portOwner' = IF bind THEN p ELSE portOwner
    /\ UNCHANGED <<pidFile, ssWorks, mgr, sigLog, cmds>>
    /\ UNCHANGED <<itemVars, loadVars>>

\* the environment: an API server is started outside this manager's tracking
ExternalServer(p) ==
    /\ envs < MaxEnv
    /\ FreePid(p)
    /\ portOwner = NoPid
    /\ envs' = envs + 1
    /\ \E o \in {"me", "other"} :
          procs' = [procs EXCEPT ![p] = [NoProc EXCEPT !.st = "serving", !.owner = o]]
    /\ portOwner' = p
    /\ UNCHANGED <<pidFile, ssWorks, mgr, sigLog, cmds>>
    /\ UNCHANGED <<itemVars, loadVars>>

\* the environment: a process is ended from outside, without its cleanup
Die(p) ==
    /\ envs < MaxEnv
    /\ Running(p)
    /\ envs' = envs + 1
    /\ procs' = [procs EXCEPT ![p].dying = TRUE]
    /\ UNCHANGED <<pidFile, portOwner, ssWorks, mgr, sigLog, cmds>>
    /\ UNCHANGED <<itemVars, loadVars>>

\* the user runs `todo serve stop`, `restart` or `status`
MgrBegin(cmd) ==
    /\ mgr.pc = "done"
    /\ cmds < MaxCmds
    /\ cmds' = cmds + 1
    /\ mgr' = [IdleMgr EXCEPT !.cmd = cmd, !.pc = "readpid"]
    /\ sigLog' = <<>>
    /\ UNCHANGED <<procs, pidFile, portOwner, ssWorks, envs>>
    /\ UNCHANGED <<itemVars, loadVars>>

\* the invocation returns to the shell: nothing of it is left
MgrExit ==
    /\ mgr.pc = "exit"
    /\ mgr' = IdleMgr
    /\ sigLog' = <<>>
    /\ UNCHANGED <<procs, pidFile, portOwner, ssWorks, cmds, envs>>
    /\ UNCHANGED <<itemVars, loadVars>>

\* the end of _stop_server: restart goes on to _start_server
AfterStop == IF mgr.cmd = "restart" THEN "s_readpid" ELSE "exit"

\* lines 119 and 188: _read_pid() up to its unlink
MgrReadPid ==
    /\ mgr.pc = "readpid"
    /\ LET r == read_pid
       IN mgr' = [mgr EXCEPT
                     !.pid = r.pid,
                     !.why = r.why,
                     !.pc = IF r.stale THEN "unlink"
                            ELSE IF r.pid = NoPid THEN "port"
                            ELSE IF mgr.cmd = "status" THEN "exit" ELSE "term",
                     !.report = IF r.pid # NoPid /\ mgr.cmd = "status" THEN "running"
                                ELSE @]
    /\ UNCHANGED <<procs, pidFile, portOwner, ssWorks, sigLog, cmds, envs>>
    /\ UNCHANGED <<itemVars, loadVars>>

\* line 115: the unlink of _read_pid, which then returns None
MgrUnlink ==
    /\ mgr.pc \in {"unlink", "s_unlink"}
    /\ Unlink
    /\ mgr' = [mgr EXCEPT !.unlinked = TRUE,
                          !.pc = IF mgr.pc = "unlink" THEN "port" ELSE "spawn"]
    /\ UNCHANGED <<procs, portOwner, ssWorks, sigLog, cmds, envs>>
    /\ UNCHANGED <<itemVars, loadVars>>

\* lines 121-126 and 188-192: _pid_from_port, and the report when it finds nothing
MgrPort ==
    /\ mgr.pc = "port"
    /\ LET q == pid_from_port
       IN mgr' = [mgr EXCEPT
                     !.pid = q,
                     !.pc = IF mgr.cmd = "status" THEN "exit"
                            ELSE IF q = NoPid THEN AfterStop ELSE "term",
                     !.report = IF mgr.cmd = "status"
                                THEN (IF q = NoPid THEN "notrunning" ELSE "running")
                                ELSE IF q = NoPid THEN "notfound" ELSE @]
    /\ UNCHANGED <<procs, pidFile, portOwner, ssWorks, sigLog, cmds, envs>>
    /\ UNCHANGED <<itemVars, loadVars>>

\* os.kill(pid, sig) of _stop_server: the signal is sent, or os.kill raises and
\* the invocation ends with the exception
SendOrRaise(sig, next) ==
    IF Probe(mgr.pid) # "ok"
    THEN /\ mgr' = [mgr EXCEPT !.pc = "exit", !.report = "raised", !.why = Probe(mgr.pid)]
         /\ UNCHANGED <<procs, sigLog>>
    ELSE /\ \E handled \in BOOLEAN :
               procs' = [procs EXCEPT ![mgr.pid] = Signalled(@, sig, handled)]
         /\ sigLog' = Append(sigLog, [pid |-> mgr.pid, sig |-> sig,
                                      st |-> procs[mgr.pid].st])
         /\ mgr' = [mgr EXCEPT !.pc = next, !.tries = 0]

\* line 127
MgrTerm ==
    /\ mgr.pc = "term"
    /\ SendOrRaise("SIGTERM", "poll")
    /\ UNCHANGED <<pidFile, portOwner, ssWorks, cmds, envs>>
    /\ UNCHANGED <<itemVars, loadVars>>

\* lines 128-135: one turn of the polling loop
MgrPoll ==
    /\ mgr.pc = "poll"
    /\ \/ /\ Probe(mgr.pid) = "ProcessLookupError"
          /\ Unlink
          /\ mgr' = [mgr EXCEPT !.pc = AfterStop, !.report = "stopped", !.dead = TRUE,
                                !.unlinked = TRUE, !.tries = 0]
       \/ /\ Probe(mgr.pid) = "PermissionError"
          /\ mgr' = [mgr EXCEPT !.pc = "exit", !.report = "raised",
                                !.why = "PermissionError"]
          /\ UNCHANGED pidFile
       \/ /\ Probe(mgr.pid) = "ok"
          /\ mgr' = [mgr EXCEPT !.tries = @ + 1,
                                !.pc = IF mgr.tries + 1 = PollBudget THEN "kill" ELSE "poll"]
          /\ UNCHANGED pidFile
    /\ UNCHANGED <<procs, portOwner, ssWorks, sigLog, cmds, envs>>
    /\ UNCHANGED <<itemVars, loadVars>>

\* line 136
MgrKill ==
    /\ mgr.pc = "kill"
    /\ SendOrRaise("SIGKILL", "killed")
    /\ UNCHANGED <<pidFile, portOwner, ssWorks, cmds, envs>>
    /\ UNCHANGED <<itemVars, loadVars>>

\* lines 137-139: the PID file is unlinked and "Killed" reported, with no probe
MgrKilled ==
    /\ mgr.pc = "killed"
    /\ Unlink
    /\ mgr' = [mgr EXCEPT !.pc = AfterStop, !.report = "killed", !.unlinked = TRUE,
                          !.dead = ~Exists(mgr.pid)]
    /\ UNCHANGED <<procs, portOwner, ssWorks, sigLog, cmds, envs>>
    /\ UNCHANGED <<itemVars, loadVars>>

\* lines 142-144: the _read_pid() of _start_server up to its unlink
MgrStartCheck ==
    /\ mgr.pc = "s_readpid"
    /\ LET r == read_pid
       IN mgr' = [mgr EXCEPT
                     !.saw = StatusOf(r),
                     !.why = r.why,
                     !.pc = IF r.pid # NoPid THEN "exit"
                            ELSE IF r.stale THEN "s_unlink" ELSE "spawn",
                     !.report = IF r.pid # NoPid THEN "already" ELSE @]
    /\ UNCHANGED <<procs, pidFile, portOwner, ssWorks, sigLog, cmds, envs>>
    /\ UNCHANGED <<itemVars, loadVars>>

\* lines 146-153: Popen of `todo serve`, a process that runs the start action
MgrSpawn(p) ==
    /\ mgr.pc = "spawn"
    /\ FreePid(p)
    /\ procs' = [procs EXCEPT ![p] = [NoProc EXCEPT !.st = "check", !.tracked = TRUE]]
    /\ mgr' = [mgr EXCEPT !.pc = "s_wait"]
    /\ UNCHANGED <<pidFile, portOwner, ssWorks, sigLog, cmds, envs>>
    /\ UNCHANGED <<itemVars, loadVars>>

\* lines 154-163: GET /tasks is answered within the attempts, or never
MgrWait ==
    /\ mgr.pc = "s_wait"
    /\ \/ portOwner # NoPid /\ mgr' = [mgr EXCEPT !.pc = "exit", !.report = "started"]
       \/ mgr' = [mgr EXCEPT !.pc = "exit", !.report = "launched"]
    /\ UNCHANGED <<procs, pidFile, portOwner, ssWorks, sigLog, cmds, envs>>
    /\ UNCHANGED <<itemVars, loadVars>>

(***************************************************************************)
(* The specifications: the item functions on every item text of the model, *)
(* the ingestion pipeline, and the lifecycle manager.                      *)
(***************************************************************************)
InitItem == ItemInit /\ TasksIdle /\ LoadIdle /\ ServeIdle

NextItem == ItemParse \/ ItemRebuild \/ ItemClear

SpecItem == InitItem /\ [][NextItem]_vars

InitTasks == TasksInit /\ ItemIdle /\ LoadIdle /\ ServeIdle

NextTasks == TasksParse

SpecTasks == InitTasks /\ [][NextTasks]_vars

InitLoad == LoadInit /\ ItemIdle /\ TasksIdle /\ ServeIdle

NextLoad ==
    \/ LoadBegin \/ Authenticate \/ Resolve \/ Fetch \/ PostTask \/ ClearGet
    \/ ClearPut \/ EditNote

SpecLoad == InitLoad /\ [][NextLoad]_vars

(***************************************************************************)
(* Note resolution alone (_resolve_note_item and _find_note_item), every   *)
(* content request answered, over lists of items of known content.         *)
(***************************************************************************)
\* the number of items listed
MaxItems == 3

\* the text of a folder item
FolderItem(name, title, id) ==
    [name |-> name, type |-> 2, title |-> title, id |-> id, parent |-> <<>>,
     body |-> <<>>,
     text |-> Join(<<title, <<>>, IdPrefix \o id, TypeKey \o <<"2">>>>, NL)]

\* the text of a note item with a body of at most one line
NoteItem(name, title, id, parent, body) ==
    [name |-> name, type |-> 1, title |-> title, id |-> id, parent |-> parent,
     body |-> body,
     text |-> Join(<<title, <<>>, body>> \o (IF body = <<>> THEN <<>> ELSE <<<<>>>>)
                   \o <<IdPrefix \o id, Line_type1, ParentKey \o parent>>, NL)]

\* two folders whose titles start with N, notes of title T in each, with and
\* without a body, a note of another title, and a name without the .md suffix
FindVocab ==
    { FolderItem(Name_f, <<"N">>, FolderId),
      FolderItem(<<"d", ".", "m", "d">>, <<"N", "x">>, OtherId),
      NoteItem(Name_n, <<"T">>, Hex("1"), FolderId, Line_1a),
      NoteItem(Name_a, <<"T">>, Hex("2"), FolderId, <<>>),
      NoteItem(<<"m", ".", "m", "d">>, <<"T">>, Hex("3"), OtherId, Line_1a),
      NoteItem(<<"t", ".", "m", "d">>, <<"T", "x">>, Hex("4"), FolderId, Line_1a),
      NoteItem(Name_x, <<"T">>, Hex("5"), FolderId, Line_1a) }

\* the lists of at most MaxItems items of distinct names
FindStores ==
    { [i \in DOMAIN l |-> Item(l[i].name, l[i].text)] :
        l \in { m \in SeqsUpTo(FindVocab, MaxItems) :
                    \A i, j \in DOMAIN m : i # j => m[i] # m[j] } }

FindInit ==
    /\ creds = "ok"
    /\ notePath \in NotePaths
    /\ store \in FindStores
    /\ LoadLocalsInit

\* _resolve_note_item: the name of the item, or None (a return of 0 at step 3)
FindNote ==
    /\ ldPc = "idle"
    /\ LET path == resolve_note_item(notePath)
           hit == find_note_item(store, {}, path.notebook_name, path.note_title)
       IN IF hit.found
          THEN ldItem' = hit.name /\ ldPc' = "fetch" /\ UNCHANGED endVars
          ELSE Return(0, 3, "notfound") /\ UNCHANGED ldItem
    /\ UNCHANGED <<envVars, store, db, dbNextId, ldText, ldTasks, ldIdx, ldCount,
                   ldCleared, calls, posts, clearCalls, runs, edits, cleanSince,
                   ldClean>>
    /\ UNCHANGED <<itemVars, serveVars>>

InitFind == FindInit /\ ItemIdle /\ TasksIdle /\ ServeIdle
NextFind == FindNote
SpecFind == InitFind /\ [][NextFind]_vars

\* the task API alone, on an empty table
InitApi == LoadIdle /\ ItemIdle /\ TasksIdle /\ ServeIdle
NextApi == ApiPost \/ ApiPut \/ ApiDelete
SpecApi == InitApi /\ [][NextApi]_vars

InitServe == ServeInit /\ ItemIdle /\ TasksIdle /\ LoadIdle

NextServe ==
    \/ \E p \in Pids : StartCli(p) \/ SrvCheck(p) \/ SrvCheckUnlink(p) \/ SrvWrite(p)
                          \/ SrvBind(p) \/ SrvExit(p) \/ Reap(p) \/ SpawnForeign(p)
                          \/ ExternalServer(p) \/ Die(p) \/ MgrSpawn(p)
    \/ \E cmd \in {"stop", "restart", "status"} : MgrBegin(cmd)
    \/ MgrReadPid \/ MgrUnlink \/ MgrPort \/ MgrTerm \/ MgrPoll \/ MgrKill
    \/ MgrKilled \/ MgrStartCheck \/ MgrWait \/ MgrExit

SpecServe == InitServe /\ [][NextServe]_vars

(***************************************************************************)
(* The claims about the ingestion pipeline, under SpecLoad.                *)
(***************************************************************************)
LoopOver == ldPc \in {"clear", "clearput"} \/ (ldPc = "done" /\ ldStep \in {6, 7})

\* C1: a failure of the note-clearing step never propagates out of
\* load_from_joplin: when clear_note fails by a transport error or by its
\* data-format error, load_from_joplin still returns the count of ingested tasks.
C1_ClearFailureNeverPropagates ==
    (ldPc = "done" /\ clearCalls > 0 /\ ldCause \in {"clearfailed", "format"})
        => (ldOutcome = "returned" /\ ldResult = ldCount)

\* C2: the remote note is cleared only after successful ingestion: in a run in
\* which clear_note is called, every parsed entry has been POSTed successfully.
C2_ClearOnlyAfterSuccess ==
    clearCalls > 0 =>
        /\ Len(posts) = Len(ldTasks)
        /\ \A i \in 1..Len(posts) : posts[i].ok
        /\ ldCount > 0

\* C3: for a note that parses to n >= 1 entries the POST loop attempts exactly n
\* POSTs, one per entry in parse order, whatever subset of them fails, and the
\* value returned is the number of POSTs that succeeded.
C3_PostLoop ==
    /\ ldPc = "post" =>
          /\ Len(posts) = ldIdx - 1
          /\ ldIdx <= Len(ldTasks)
    /\ LoopOver =>
          /\ Len(ldTasks) >= 1
          /\ Len(posts) = Len(ldTasks)
          /\ \A i \in 1..Len(posts) : posts[i].task = ldTasks[i]
          /\ ldCount = Cardinality({i \in 1..Len(posts) : posts[i].ok})
          /\ ldCount \in 0..Len(ldTasks)
          /\ ldOutcome = "returned" => ldResult = ldCount

C3_Witness ==
    /\ ldPc = "done" /\ ldOutcome = "returned" /\ ldStep = 7
    /\ Len(ldTasks) = 2 /\ Len(posts) = 2
    /\ ~posts[1].ok /\ posts[2].ok
    /\ ldResult = 1

\* the ways the pipeline stops at steps 1 to 4 that the claim names, as pairs of
\* the step and the cause: no or incomplete credentials; a transport failure, a
\* reply that is not JSON or one without "id" at the authentication; nothing found
\* or a transport failure at the resolution; a transport failure at the fetch; no
\* entries
EarlyStops == {<<1, "noconfig">>, <<1, "incomplete">>,
               <<2, "transport">>, <<2, "badjson">>, <<2, "nokey">>,
               <<3, "notfound">>, <<3, "transport">>,
               <<4, "transport">>, <<4, "notasks">>}

\* no call of the run repeats an earlier one: no step is tried again
NoRepeatedCall ==
    \A i, j \in 1..Len(calls) :
        i < j => ~(calls[i].op = calls[j].op /\ calls[i].arg = calls[j].arg)

C5_NoReingestion ==
    ldClean =>
        /\ ldText = <<>>
        /\ ldTasks = <<>>
        /\ posts = <<>>
        /\ (ldPc = "done" /\ ldOutcome = "returned") => ldResult = 0

(***************************************************************************)
(* The claims about the lifecycle manager, under SpecServe.                *)
(***************************************************************************)
\* C6: start is a no-op when a server is already running: if the status check
\* (the PID file, or with no PID file the port) finds a live server, neither
\* `serve start` nor the start step of `serve restart` goes on to launch one.
C6_StartRefusesWhenServerFound ==
    /\ \A p \in Pids :
          (procs[p].st \in {"checkunlink", "write"} /\ procs[p].saw # NoPid)
              => procs[procs[p].saw].st # "serving"
    /\ (mgr.pc \in {"s_unlink", "spawn"} /\ mgr.saw # NoPid)
          => procs[mgr.saw].st # "serving"

\* C7: whenever _stop_server reports success ("Stopped" or "Killed"), the process
\* it targeted no longer exists: the PID file is removed only on confirmed death.
C7_StopSuccessMeansDead ==
    mgr.report \in {"stopped", "killed"} => mgr.dead

\* _stop_server has just ended with "No running API server found"
StopFoundNothing ==
    /\ mgr.report = "notfound"
    /\ mgr.cmd = "stop" \/ (mgr.cmd = "restart" /\ mgr.pc = "s_readpid")

\* C8: stopping when no server is running reports "No running API server found",
\* sends no signal and makes no state change: the PID file, whatever its content,
\* is as before the call.
C8_StopNotFoundChangesNothing ==
    StopFoundNothing => (sigLog = <<>> /\ ~mgr.unlinked)

\* C8, amended: stopping when the status check and the port lookup find no process
\* reports "No running API server found", sends no signal, and changes nothing but
\* the PID file, which it removes when the status check found it stale (not an
\* integer, or naming a process that os.kill reports missing or not permitted).
C8_StopNotFoundOnlyUnlinksStale ==
    StopFoundNothing =>
        /\ sigLog = <<>>
        /\ mgr.pid = NoPid
        /\ mgr.unlinked <=> mgr.why \in {"ValueError", "ProcessLookupError",
                                         "PermissionError"}

C8_Witness ==
    /\ StopFoundNothing
    /\ mgr.unlinked
    /\ mgr.why = "ProcessLookupError"
    /\ \E p \in Pids : procs[p].st = "foreign"

\* C9: the status check removes the PID file exactly when it is stale: a PID file
\* naming a process that still exists, one the caller may not signal included, is
\* left in place.
C9_UnlinkOnlyWhenStale ==
    mgr.pc \in {"unlink", "s_unlink"} => mgr.why \in {"ValueError", "ProcessLookupError"}

(***************************************************************************)
(* The claims about the item format, under SpecItem.                       *)
(***************************************************************************)
\* the item texts of the claim: title, blank line, a body whose first and last
\* lines are not blank, blank line, metadata lines from the id line on
TitleBodyMeta(sh) ==
    /\ sh.sepA = 2 /\ sh.sepB = 2
    /\ sh.body # <<>>
    /\ Strip(sh.body[1]) # <<>> /\ Strip(sh.body[Len(sh.body)]) # <<>>

\* C10: parse and rebuild are inverses on item text: for every such text, with
\* or without a trailing newline, _rebuild_joplin_item of what _parse_joplin_item
\* returned reproduces the text byte for byte.
C10_RebuildIsInverse ==
    (itPc = "rebuilt" /\ TitleBodyMeta(itShape)) => itRebuilt = itText

\* C10, amended: for every such text, _rebuild_joplin_item of what
\* _parse_joplin_item returned is the text with its trailing newlines replaced by
\* exactly one: it is the input byte for byte exactly when the input ends in
\* exactly one newline.
C10_RebuildNormalisesEnd ==
    (itPc = "rebuilt" /\ TitleBodyMeta(itShape)) =>
        /\ itRebuilt = RenderItem([itShape EXCEPT !.trail = 1])
        /\ itRebuilt = itText <=> itShape.trail = 1

C10_Witness ==
    /\ itPc = "rebuilt" /\ TitleBodyMeta(itShape)
    /\ Len(itShape.body) = 2 /\ Len(itShape.meta) = 2
    /\ itShape.trail = 1
    /\ itRebuilt = itText

\* a metadata line as the claim has it after clearing: the value of updated_time
\* and of user_updated_time is the stamp, every other line is as it was
StampedLine(line, now) ==
    IF StartsWith(line, UpdatedPrefix) THEN UpdatedPrefix \o now
    ELSE IF StartsWith(line, UserUpdatedPrefix) THEN UserUpdatedPrefix \o now
    ELSE line

\* the text the claim expects of clear_note: the title, one blank line, the
\* metadata lines
ExpectedCleared(sh, now) ==
    RenderItem([sh EXCEPT !.sepA = 2, !.body = <<>>,
                          !.meta = [i \in 1..Len(sh.meta) |-> StampedLine(sh.meta[i], now)]])

\* C11: for an item text with a title, a non-empty body and a metadata block,
\* the text clear_note writes back is the unchanged title, exactly one blank line,
\* and the metadata lines in order, unchanged but for the stamped values of
\* updated_time and user_updated_time; no body line remains.
C11_ClearedIsTitleBlankMeta ==
    (itPc = "cleared" /\ TitleBodyMeta(itShape) /\ itShape.title # <<>>) =>
        /\ itCleared.ok
        /\ itCleared.text = ExpectedCleared(itShape, Stamp(1))

(***************************************************************************)
(* The claims about the task mini-language, under SpecTasks.               *)
(***************************************************************************)
RECURSIVE EntriesOf(_, _)
\* the entries that are to come of the lines, in order; literal: with the '#'
\* looked for at the start of the line as it stands
EntriesOf(lines, literal) ==
    IF lines = <<>> THEN <<>>
    ELSE (IF literal THEN lines[1].unstripped ELSE lines[1].entries)
         \o EntriesOf(Tail(lines), literal)

\* C12: parse_tasks returns, in input order, exactly one entry for each line that
\* is non-blank, does not start with '#', has at least 2 fields and non-empty
\* trimmed date and headline, with the trimmed third field or "" as context;
\* every other line contributes nothing.
C12_ParseTasksByLine ==
    tkPc = "parsed" => tkEntries = EntriesOf(tkShape.lines, TRUE)

\* C12, amended: the same, where the line is first trimmed, so that a line whose
\* first character after leading whitespace is '#' contributes nothing, and where
\* the lines are those of str.splitlines().
C12_ParseTasksByTrimmedLine ==
    tkPc = "parsed" => tkEntries = EntriesOf(tkShape.lines, FALSE)

C12_Witness ==
    /\ tkPc = "parsed"
    /\ Len(tkShape.lines) = 2
    /\ tkShape.lines[1].raw = <<" ", "#", "5", ";", "h">>
    /\ tkShape.lines[2].raw = <<" ", "2", " ", ";", " ", "b", " ", ";", " ", "c", " ">>
    /\ tkShape.sep = <<CR, NL>>
    /\ tkEntries = <<Entry(<<"2">>, <<"b">>, <<"c">>)>>

\* C13: every task held in storage has a non-empty headline, whatever POST, PUT and
\* DELETE requests with string bodies were served
C13_StoredHeadlineNonEmpty ==
    \A i \in 1..Len(db) : db[i].headline # <<>>

\* the item of FindVocab that is listed under a name
ListedAs(name) == CHOOSE v \in FindVocab : v.name = name

\* the candidates of the claim: the positions of the '.md' items of type 1 whose
\* title is the requested one and, with a notebook name, whose parent id is the id
\* of some listed '.md' item of type 2 whose title starts with that name
Folders(notebook_name) ==
    {i \in DOMAIN store :
        /\ EndsWith(store[i].name, MdSuffix)
        /\ ListedAs(store[i].name).type = 2
        /\ StartsWith(ListedAs(store[i].name).title, notebook_name)}

Candidates(notebook_name, note_title) ==
    {i \in DOMAIN store :
        /\ EndsWith(store[i].name, MdSuffix)
        /\ ListedAs(store[i].name).type = 1
        /\ ListedAs(store[i].name).title = note_title
        /\ \/ notebook_name = <<>>
           \/ \E f \in Folders(notebook_name) :
                 ListedAs(store[i].name).parent = ListedAs(store[f].name).id}

\* i sorts before j: non-empty bodies first, then by item name
SortsBefore(i, j) ==
    \/ ListedAs(store[i].name).body # <<>> /\ ListedAs(store[j].name).body = <<>>
    \/ /\ (ListedAs(store[i].name).body = <<>>) = (ListedAs(store[j].name).body = <<>>)
       /\ StrLess(store[i].name, store[j].name)

Resolved(notebook_name, note_title) ==
    IF \/ notebook_name # <<>> /\ Folders(notebook_name) = {}
       \/ Candidates(notebook_name, note_title) = {}
    THEN ldPc = "done" /\ ldCause = "notfound"
    ELSE /\ ldPc = "fetch"
         /\ \E i \in Candidates(notebook_name, note_title) :
               /\ ldItem = store[i].name
               /\ \A j \in Candidates(notebook_name, note_title) : ~SortsBefore(j, i)

\* C14: note resolution returns the candidate that sorts first by (empty body, item
\* name) among the notes of the requested title whose parent is a folder whose title
\* starts with the notebook name, and not-found when there is no such folder or no
\* candidate
C14_SelectsMinimumCandidate ==
    ldPc # "idle" =>
        Resolved(resolve_note_item(notePath).notebook_name,
                 resolve_note_item(notePath).note_title)

\* C15: stop and restart send SIGTERM and SIGKILL only to the API server: no signal
\* of _stop_server reaches a process that is not one of `todo serve start` or a
\* server of the API, whatever the PID file and the port led it to
C15_SignalsOnlyApiServer ==
    \A i \in 1..Len(sigLog) : sigLog[i].st # "foreign"

\* the task entries among the lines of a text
TaskEntries(text) == {parse_tasks(text)[i] : i \in DOMAIN parse_tasks(text)}

\* C16: no task line is lost by clearing: every task line that the PUT of clear_note
\* removes from the note is one of the entries that the same run fetched and parsed
C16_ClearRemovesOnlyParsed ==
    [][(ldPc = "clearput" /\ ldPc' = "done" /\ store' # store)
          => \A e \in TaskEntries(TextOf(store, ldItem))
                        \ TaskEntries(TextOf(store', ldItem)) :
                \E i \in DOMAIN ldTasks : ldTasks[i] = e]_vars

\* C17: while a process of `serve start` is serving, the PID file exists and holds
\* its PID; in particular the exit cleanup of another `serve start` process leaves
\* a PID file alone that does not record its own PID
C17_PidFileRecordsServingProcess ==
    \A p \in Pids :
        (procs[p].st = "serving" /\ procs[p].tracked /\ ~procs[p].dying
            /\ mgr.pid # p)
            => pidFile = [exists |-> TRUE, valid |-> TRUE, pid |-> p]

=============================================================================
